---------------------------- MODULE Spec2Model ----------------------------
(***************************************************************************)
(* Property discovery builders of cp-ansible (discovery/service) and the   *)
(* command line glue of discovery/utils/utils.py.                          *)
(*                                                                         *)
(* Python strings that the code parses (listener URIs, numbers, versions)  *)
(* are sequences of one-character strings; dictionaries are functions      *)
(* whose DOMAIN is the set of keys present; Python values of different     *)
(* types are tagged records [t, v].                                        *)
(***************************************************************************)
EXTENDS Integers, Sequences, FiniteSets, TLC

VARIABLES
    service,                    \* self.service: the builder that is running
    inventory,                  \* the shared CPInventoryManager
    reachable,                  \* hosts the collector gets an answer from
    rawProps,                   \* collector answer: host -> default property map
    configFile,                 \* service/config/<service>.yml on disk
    aliasAnswers,               \* alias resolver answers, [ks, ts]
    conflictSide,               \* side of the conflict block left in zookeeper.py
    pc,                         \* position inside build_properties
    ruleIdx,                    \* position inside __build_service_properties
    hosts,                      \* self.hosts
    host_service_properties,    \* local of build_properties
    service_properties,         \* local of build_properties
    mapped_service_properties,  \* self.mapped_service_properties
    raised,                     \* exception that ended the run, or "none"
    log,                        \* diagnostics written with logger.error
    readKeys,                   \* raw keys looked up by the rules of this run
    calls,                      \* steps and rules executed in this run, in order
    run,                        \* number of the builder run in progress
    invAtStart,                 \* inventory when the run in progress started
    invAfterFirst,              \* inventory when the first run ended
    cli,                        \* command line state (Arguments, InputContext)
    brokerWrite                 \* the broker builder's write of ssl_mutual_auth_enabled

vars == <<service, inventory, reachable, rawProps, configFile, aliasAnswers,
          conflictSide, pc, ruleIdx, hosts, host_service_properties,
          service_properties, mapped_service_properties, raised, log, readKeys,
          calls, run, invAtStart, invAfterFirst, cli, brokerWrite>>

builderVars == <<service, inventory, reachable, rawProps, configFile, aliasAnswers,
          conflictSide, pc, ruleIdx, hosts, host_service_properties,
          service_properties, mapped_service_properties, raised, log, readKeys,
          calls, run, invAtStart, invAfterFirst, brokerWrite>>

-----------------------------------------------------------------------------
(* Bounds *)

\* builder runs made one after the other on the same inventory
MaxRuns == 2

-----------------------------------------------------------------------------
(* Python values *)

NoneV == [t |-> "none", v |-> 0]
StrV(s) == [t |-> "str", v |-> s]
BytesV(s) == [t |-> "bytes", v |-> s]
IntV(n) == [t |-> "int", v |-> n]
FloatV(s) == [t |-> "float", v |-> s]
BoolV(b) == [t |-> "bool", v |-> b]

EmptyDict == [k \in {} |-> NoneV]

\* dict.get(key): the value, or None when the key is absent
Get(d, key) == IF key \in DOMAIN d THEN StrV(d[key]) ELSE NoneV

\* dict.update: shallow union, the right operand wins
Update(a, b) ==
    [k \in DOMAIN a \cup DOMAIN b |-> IF k \in DOMAIN b THEN b[k] ELSE a[k]]

\* str.find(sub): lowest 0-based index of sub in s, -1 when it does not occur
Find(s, sub) ==
    LET at == {i \in 1..(Len(s) - Len(sub) + 1) : SubSeq(s, i, i + Len(sub) - 1) = sub}
    IN  IF at = {} THEN -1 ELSE (CHOOSE i \in at : \A j \in at : i <= j) - 1

\* index (1-based) of the first element of s that is in cs, 0 when there is none
FirstOf(s, cs) ==
    LET at == {i \in 1..Len(s) : s[i] \in cs}
    IN  IF at = {} THEN 0 ELSE CHOOSE i \in at : \A j \in at : i <= j

Digit == {"0", "1", "2", "3", "4", "5", "6", "7", "8", "9"}
Letter == {"a", "b", "c", "d", "e", "f", "g", "h", "i", "j", "k", "l", "m", "n", "o",
           "p", "q", "r", "s", "t", "u", "v", "w", "x", "y", "z"}

DigitVal(c) ==
    CASE c = "0" -> 0 [] c = "1" -> 1 [] c = "2" -> 2 [] c = "3" -> 3 [] c = "4" -> 4
      [] c = "5" -> 5 [] c = "6" -> 6 [] c = "7" -> 7 [] c = "8" -> 8 [] c = "9" -> 9

IsDigits(s) == Len(s) > 0 /\ \A i \in 1..Len(s) : s[i] \in Digit

RECURSIVE DigitsVal(_)
DigitsVal(s) ==
    IF s = <<>> THEN 0 ELSE 10 * DigitsVal(SubSeq(s, 1, Len(s) - 1)) + DigitVal(s[Len(s)])

\* int(x): [exc, v]. int(None) is a TypeError, int of a string that is no
\* decimal literal a ValueError.
PyInt(x) ==
    IF x.t = "none" THEN [exc |-> "TypeError", v |-> 0]
    ELSE IF x.t = "int" THEN [exc |-> "none", v |-> x.v]
    ELSE IF IsDigits(x.v) THEN [exc |-> "none", v |-> DigitsVal(x.v)]
    ELSE [exc |-> "ValueError", v |-> 0]

\* str.split(sep) for a one-character sep
RECURSIVE Split(_, _)
Split(s, sep) ==
    LET i == FirstOf(s, {sep})
    IN  IF i = 0 THEN <<s>>
        ELSE <<SubSeq(s, 1, i - 1)>> \o Split(SubSeq(s, i + 1, Len(s)), sep)

\* urllib.parse.urlparse(url) followed by .scheme, .hostname and .port:
\* [scheme, hostname, port, portExc]. urlparse(None) yields the empty bytes
\* result. The port property raises ValueError for a port that is not a
\* number in 0..65535.
urlparse(url) ==
    IF url.t = "none"
    THEN [scheme |-> BytesV(<<>>), hostname |-> NoneV, port |-> NoneV, portExc |-> "none"]
    ELSE
    LET s == url.v
        i == FirstOf(s, {":"})
        hasScheme == /\ i > 1
                     /\ s[1] \in Letter
                     /\ \A j \in 1..(i - 1) : s[j] \in Letter \cup Digit \cup {"+", "-", "."}
        scheme == IF hasScheme THEN SubSeq(s, 1, i - 1) ELSE <<>>
        rest == IF hasScheme THEN SubSeq(s, i + 1, Len(s)) ELSE s
        hasNetloc == Len(rest) >= 2 /\ SubSeq(rest, 1, 2) = <<"/", "/">>
        after == IF hasNetloc THEN SubSeq(rest, 3, Len(rest)) ELSE <<>>
        e == FirstOf(after, {"/", "?", "#"})
        netloc == IF e = 0 THEN after ELSE SubSeq(after, 1, e - 1)
        c == FirstOf(netloc, {":"})
        host == IF c = 0 THEN netloc ELSE SubSeq(netloc, 1, c - 1)
        portS == IF c = 0 THEN <<>> ELSE SubSeq(netloc, c + 1, Len(netloc))
        portOk == portS = <<>> \/ (IsDigits(portS) /\ DigitsVal(portS) <= 65535)
    IN  [scheme |-> StrV(scheme),
         hostname |-> IF host = <<>> THEN NoneV ELSE StrV(host),
         port |-> IF portS = <<>> \/ ~portOk THEN NoneV ELSE IntV(DigitsVal(portS)),
         portExc |-> IF portOk THEN "none" ELSE "ValueError"]

-----------------------------------------------------------------------------
(* Services (ConfluentServices) and the inventory *)

CONTROL_CENTER == "control_center"
ZOOKEEPER == "zookeeper"
KAFKA_BROKER == "kafka_broker"
Services == {CONTROL_CENTER, ZOOKEEPER}
DEFAULT_KEY == "default"

\* the result of a rule: the (scope, properties) pair it returns or the
\* exception it raises, the keys it adds to self.mapped_service_properties
\* and the raw keys it looks up in the property map
Ret(scope, props, adds, reads) ==
    [exc |-> "none", scope |-> scope, props |-> props, adds |-> adds, reads |-> reads]
Raise(exc, adds, reads) ==
    [exc |-> exc, scope |-> "all", props |-> EmptyDict, adds |-> adds, reads |-> reads]

\* AbstractPropertyBuilder.get_service_host: the hosts of the service's group
get_service_host(svc, inv) ==
    IF svc \in DOMAIN inv.members THEN inv.members[svc] ELSE <<>>

\* PythonAPIUtils.parse_ansible_api_response: failed and unreachable hosts
\* are logged, only the hosts that answered are returned
parse_ansible_api_response(asked) ==
    [ok |-> asked \cap reachable, logged |-> asked \ reachable]

\* AbstractPropertyBuilder.get_property_mappings: the HostPropertyTable
get_property_mappings(svc, hs) ==
    LET asked == {hs[i] : i \in 1..Len(hs)}
    IN  [h \in parse_ansible_api_response(asked).ok |->
            [variant \in {DEFAULT_KEY} |-> rawProps[h]]]

\* AbstractPropertyBuilder.update_inventory: shallow union, last write wins;
\* the scope "all" is merged into every group that exists at merge time
update_inventory(inv, data) ==
    IF DOMAIN data.props = {} THEN inv
    ELSE IF data.scope = "all"
    THEN [inv EXCEPT !.groups = [g \in DOMAIN inv.groups |-> Update(inv.groups[g], data.props)]]
    ELSE [inv EXCEPT !.groups =
            [g \in DOMAIN inv.groups \cup {data.scope} |->
                IF g = data.scope
                THEN Update(IF g \in DOMAIN inv.groups THEN inv.groups[g] ELSE EmptyDict,
                            data.props)
                ELSE inv.groups[g]]]

\* AbstractPropertyBuilder.get_service_user_group
get_service_user_group(svc) ==
    Ret("all",
        IF svc = CONTROL_CENTER
        THEN "control_center_user" :> StrV(<<"c", "p">>) @@ "control_center_group" :> StrV(<<"c", "p">>)
        ELSE "zookeeper_user" :> StrV(<<"c", "p">>) @@ "zookeeper_group" :> StrV(<<"c", "p">>),
        {}, {})

\* AbstractPropertyBuilder.get_jvm_arguments
get_jvm_arguments(svc) == StrV(<<"-", "x">>)

\* AbstractPropertyBuilder.get_keystore_alias_names
get_keystore_alias_names(store) == aliasAnswers[store]

\* AbstractPropertyBuilder.build_custom_properties: every host of the table
\* gets its raw pairs that are neither mapped nor skipped, as host overrides
build_custom_properties(inv, custom_group, props_by_host, skip_properties, mapped_properties) ==
    [inv EXCEPT !.hostvars =
        [h \in DOMAIN inv.hostvars \cup DOMAIN props_by_host |->
            IF h \in DOMAIN props_by_host
            THEN Update(IF h \in DOMAIN inv.hostvars THEN inv.hostvars[h] ELSE EmptyDict,
                        custom_group :>
                          [k \in DOMAIN props_by_host[h] \ (mapped_properties \cup skip_properties)
                              |-> props_by_host[h][k]])
            ELSE inv.hostvars[h]]]

\* FileUtils.__read_service_configuration_file and get_*_configs(name):
\* a missing file is an empty dict, so get(name, None) is None; a file that
\* is not YAML makes the reader return None, and None has no get
get_configs(file, name) ==
    CASE file.kind = "missing" -> [exc |-> "none", v |-> NoneV]
      [] file.kind = "invalid" -> [exc |-> "AttributeError", v |-> NoneV]
      [] OTHER -> [exc |-> "none",
                   v |-> IF name \in DOMAIN file.content
                         THEN [t |-> "list", v |-> file.content[name]] ELSE NoneV]

\* set(x): set(None) is a TypeError
PySet(x) ==
    IF x.t = "none" THEN [exc |-> "TypeError", v |-> {}] ELSE [exc |-> "none", v |-> x.v]

-----------------------------------------------------------------------------
(* Extraction rules of ControlCenterServicePropertyBaseBuilder *)

_build_service_protocol_port(service_prop) ==
    LET key == "confluent.controlcenter.rest.listeners"
        parsed_uri == urlparse(Get(service_prop, key))
    IN  IF parsed_uri.portExc # "none"
        THEN Raise(parsed_uri.portExc, {key}, {key})
        ELSE Ret("all",
                 "control_center_http_protocol" :> parsed_uri.scheme
                 @@ "control_center_listener_hostname" :> parsed_uri.hostname
                 @@ "control_center_port" :> parsed_uri.port,
                 {key}, {key})

ReplicationKeys ==
    {"confluent.controlcenter.command.topic.replication",
     "confluent.controlcenter.internal.topics.replication",
     "confluent.metrics.topic.replication",
     "confluent.monitoring.interceptor.topic.replication"}

\* the replication rule taking its value from the second key
_build_control_center_internal_replication_property_second_key(service_prop) ==
    LET key1 == "confluent.controlcenter.command.topic.replication"
        key2 == "confluent.controlcenter.internal.topics.replication"
        n == PyInt(Get(service_prop, key2))
    IN  IF n.exc # "none"
        THEN Raise(n.exc, ReplicationKeys, {key2})
        ELSE Ret("all",
                 "control_center_default_internal_replication_factor" :> IntV(n.v),
                 ReplicationKeys, {key2})

_build_control_center_internal_replication_property(service_prop) ==
    LET key1 == "confluent.controlcenter.command.topic.replication"
        n == PyInt(Get(service_prop, key1))
    IN  IF n.exc # "none"
        THEN Raise(n.exc, ReplicationKeys, {key1})
        ELSE Ret("all",
                 "control_center_default_internal_replication_factor" :> IntV(n.v),
                 ReplicationKeys, {key1})

ControlCenterSslKeys ==
    {"confluent.controlcenter.rest.ssl.truststore.location",
     "confluent.controlcenter.rest.ssl.truststore.password",
     "confluent.controlcenter.rest.ssl.keystore.location",
     "confluent.controlcenter.rest.ssl.keystore.password",
     "confluent.controlcenter.rest.ssl.key.password"}

\* the alias part shared by both TLS rules: the first alias of each store
\* when the resolver returns any
\* the alias part taking the last alias of each list
AliasProperties_last_alias ==
    LET keystore_aliases == get_keystore_alias_names("ks")
        truststore_aliases == get_keystore_alias_names("ts")
    IN  (IF keystore_aliases # <<>>
         THEN "ssl_keystore_alias" :> StrV(keystore_aliases[Len(keystore_aliases)])
         ELSE EmptyDict)
        @@ "ssl_truststore_ca_cert_alias" :>
             (IF truststore_aliases # <<>>
              THEN StrV(truststore_aliases[Len(truststore_aliases)]) ELSE StrV(<<>>))

AliasProperties ==
    LET keystore_aliases == get_keystore_alias_names("ks")
        truststore_aliases == get_keystore_alias_names("ts")
    IN  (IF keystore_aliases # <<>>
         THEN "ssl_keystore_alias" :> StrV(keystore_aliases[1]) ELSE EmptyDict)
        @@ "ssl_truststore_ca_cert_alias" :>
             (IF truststore_aliases # <<>> THEN StrV(truststore_aliases[1]) ELSE StrV(<<>>))

_build_tls_properties(service_prop) ==
    LET key == "confluent.controlcenter.rest.listeners"
        control_center_listener == Get(service_prop, key)
    IN  IF control_center_listener.t = "none"
        THEN Raise("AttributeError", {}, {key})
        ELSE IF Find(control_center_listener.v, <<"h", "t", "t", "p", "s">>) < 0
        THEN Ret("all", EmptyDict, {}, {key})
        ELSE Ret("control_center",
                 "ssl_enabled" :> BoolV(TRUE)
                 @@ "ssl_provided_keystore_and_truststore" :> BoolV(TRUE)
                 @@ "ssl_provided_keystore_and_truststore_remote_src" :> BoolV(TRUE)
                 @@ "control_center_truststore_path" :>
                      Get(service_prop, "confluent.controlcenter.rest.ssl.truststore.location")
                 @@ "ssl_truststore_password" :>
                      Get(service_prop, "confluent.controlcenter.rest.ssl.truststore.password")
                 @@ "control_center_keystore_path" :>
                      Get(service_prop, "confluent.controlcenter.rest.ssl.keystore.location")
                 @@ "ssl_keystore_store_password" :>
                      Get(service_prop, "confluent.controlcenter.rest.ssl.keystore.password")
                 @@ "ssl_keystore_key_password" :>
                      Get(service_prop, "confluent.controlcenter.rest.ssl.key.password")
                 @@ AliasProperties,
                 ControlCenterSslKeys, {key} \cup ControlCenterSslKeys)

_build_authentication_property(service_prop) ==
    LET key == "confluent.controlcenter.rest.authentication.method"
        value == Get(service_prop, key)
    IN  IF value.t # "none" /\ value.v = <<"B", "A", "S", "I", "C">>
        THEN Ret("all", "control_center_authentication_type" :> StrV(<<"b", "a", "s", "i", "c">>),
                 {key}, {key})
        ELSE Ret("all", EmptyDict, {key}, {key})

\* _build_mtls_property looking up a variable the builder itself broadcasts
_build_mtls_property_wrong_variable(service_prop) ==
    LET broker_group == KAFKA_BROKER
    IN  IF /\ broker_group \in DOMAIN inventory.groups
           /\ "control_center_custom_java_args" \in DOMAIN inventory.groups[broker_group]
        THEN Ret("control_center", "ssl_mutual_auth_enabled" :> BoolV(TRUE), {}, {})
        ELSE Ret("all", EmptyDict, {}, {})

\* _build_mtls_property emitting only when the broker's variable is True
_build_mtls_property_checks_value(service_prop) ==
    LET broker_group == KAFKA_BROKER
    IN  IF /\ broker_group \in DOMAIN inventory.groups
           /\ "ssl_mutual_auth_enabled" \in DOMAIN inventory.groups[broker_group]
           /\ inventory.groups[broker_group]["ssl_mutual_auth_enabled"] = BoolV(TRUE)
        THEN Ret("control_center", "ssl_mutual_auth_enabled" :> BoolV(TRUE), {}, {})
        ELSE Ret("all", EmptyDict, {}, {})

_build_mtls_property(service_prop) ==
    LET broker_group == KAFKA_BROKER
    IN  IF /\ broker_group \in DOMAIN inventory.groups
           /\ "ssl_mutual_auth_enabled" \in DOMAIN inventory.groups[broker_group]
        THEN Ret("control_center", "ssl_mutual_auth_enabled" :> BoolV(TRUE), {}, {})
        ELSE Ret("all", EmptyDict, {}, {})

\* the RBAC rule emitting nothing when the governing key is absent
_build_rbac_properties_omits_default(service_prop) ==
    LET key1 == "confluent.controlcenter.rest.authentication.method"
        key2 == "public.key.path"
        key3 == "confluent.metadata.bootstrap.server.urls"
    IN  IF Get(service_prop, key1).t = "none"
        THEN Ret("all", EmptyDict, {}, {key1})
        ELSE Ret("control_center",
                 "rbac_enabled" :> BoolV(TRUE)
                 @@ "rbac_enabled_public_pem_path" :> Get(service_prop, key2),
                 {key1, key2, key3}, {key1, key2})

_build_rbac_properties(service_prop) ==
    LET key1 == "confluent.controlcenter.rest.authentication.method"
        key2 == "public.key.path"
        key3 == "confluent.metadata.bootstrap.server.urls"
    IN  IF Get(service_prop, key1).t = "none"
        THEN Ret("control_center", "rbac_enabled" :> BoolV(FALSE), {}, {key1})
        ELSE Ret("control_center",
                 "rbac_enabled" :> BoolV(TRUE)
                 @@ "rbac_enabled_public_pem_path" :> Get(service_prop, key2),
                 {key1, key2, key3}, {key1, key2})

_build_ldap_properties(service_prop) ==
    LET key == "confluent.metadata.basic.auth.user.info"
        metadata_user_info == Get(service_prop, key)
        parts == Split(metadata_user_info.v, ":")
    IN  IF metadata_user_info.t = "none"
        THEN Ret("all", EmptyDict, {key}, {key})
        ELSE IF Len(parts) < 2
        THEN Raise("IndexError", {key}, {key})
        ELSE Ret("all",
                 "control_center_ldap_user" :> StrV(parts[1])
                 @@ "control_center_ldap_password" :> StrV(parts[2]),
                 {key}, {key})

-----------------------------------------------------------------------------
(* Extraction rules of ZookeeperServicePropertyBaseBuilder *)

_build_service_port_properties(service_prop) ==
    LET key == "clientPort"
        n == PyInt(Get(service_prop, key))
    IN  IF Get(service_prop, key).t = "none"
        THEN Ret("all", EmptyDict, {key}, {key})
        ELSE IF n.exc # "none"
        THEN Raise(n.exc, {key}, {key})
        ELSE Ret("all", "zookeeper_client_port" :> IntV(n.v), {key}, {key})

ZookeeperSslKeys ==
    {"secureClientPort", "ssl.keyStore.location", "ssl.keyStore.password",
     "ssl.trustStore.location", "ssl.trustStore.password"}

_build_ssl_properties(service_properties_) ==
    LET secure == Get(service_properties_, "secureClientPort")
        zookeeper_ssl_enabled == secure.t # "none" /\ secure.v # <<>>
    IN  IF ~zookeeper_ssl_enabled
        THEN Ret("all", EmptyDict, ZookeeperSslKeys, {"secureClientPort"})
        ELSE Ret("zookeeper",
                 "ssl_enabled" :> BoolV(TRUE)
                 @@ "zookeeper_keystore_path" :> Get(service_properties_, "ssl.keyStore.location")
                 @@ "ssl_keystore_store_password" :> Get(service_properties_, "ssl.keyStore.password")
                 @@ "zookeeper_truststore_path" :> Get(service_properties_, "ssl.trustStore.location")
                 @@ "ssl_truststore_password" :> Get(service_properties_, "ssl.trustStore.password")
                 @@ "ssl_provided_keystore_and_truststore" :> BoolV(TRUE)
                 @@ "ssl_provided_keystore_and_truststore_remote_src" :> BoolV(TRUE)
                 @@ AliasProperties,
                 ZookeeperSslKeys, ZookeeperSslKeys)

_build_mtls_properties(service_properties_) ==
    LET zookeeper_client_authentication_type == Get(service_properties_, "ssl.clientAuth")
    IN  IF /\ zookeeper_client_authentication_type.t # "none"
           /\ zookeeper_client_authentication_type.v = <<"n", "e", "e", "d">>
        THEN Ret("zookeeper", "ssl_mutual_auth_enabled" :> BoolV(TRUE), {}, {"ssl.clientAuth"})
        ELSE Ret("all", EmptyDict, {}, {"ssl.clientAuth"})

\* vars(cls).items() yields the rules in the order the class declares them
ControlCenterRules ==
    <<"_build_service_protocol_port",
      "_build_control_center_internal_replication_property",
      "_build_tls_properties",
      "_build_authentication_property",
      "_build_mtls_property",
      "_build_rbac_properties",
      "_build_ldap_properties">>

ZookeeperRules ==
    <<"_build_service_port_properties", "_build_ssl_properties", "_build_mtls_properties">>

Rules(svc) == IF svc = CONTROL_CENTER THEN ControlCenterRules ELSE ZookeeperRules

-----------------------------------------------------------------------------
(* Inputs of a discovery run *)

Chars_https == <<"h", "t", "t", "p", "s">>
Chars_http == <<"h", "t", "t", "p">>
Chars_b1_9021 == <<":", "/", "/", "b", "1", ":", "9", "0", "2", "1">>

ListenerOpts ==
    { <<>>,
      <<Chars_https \o Chars_b1_9021>>,
      <<Chars_http \o Chars_b1_9021>>,
      <<Chars_http \o <<":", "/", "/">> \o Chars_https \o <<"-", "g", "w", ":", "9", "0", "2", "1">>>>,
      <<Chars_https \o <<":", "/", "/", "b", "1", ":", "p", "o", "r", "t">>>> }

ReplicationOpts == { <<>>, <<<<"3">>>>, <<<<"2">>>>, <<<<"x">>>> }
AuthenticationOpts == { <<>>, <<<<"B", "A", "S", "I", "C">>>> }
LdapOpts == { <<>>, <<<<"u", ":", "p">>>> }
ClientPortOpts == { <<>>, <<<<"2", "1", "8", "1">>>> }
SecurePortOpts == { <<>>, <<<<"2", "1", "8", "2">>>> }
ClientAuthOpts == { <<>>, <<<<"n", "e", "e", "d">>>>, <<<<"n", "o", "n", "e">>>> }
ExtraOpts == { <<>>, <<<<"v", "1">>>>, <<<<"v", "2">>>> }
AliasOpts == { <<>>, <<<<"a", "1">>, <<"a", "2">>>> }

\* a property-file entry that is present (<<value>>) or absent (<<>>)
Opt(key, o) == IF o = <<>> THEN EmptyDict ELSE key :> o[1]

ControlCenterMaps ==
    { Opt("confluent.controlcenter.rest.listeners", l)
      @@ Opt("confluent.controlcenter.command.topic.replication", r)
      @@ Opt("confluent.controlcenter.rest.authentication.method", a)
      @@ Opt("confluent.metadata.basic.auth.user.info", u)
      @@ "confluent.controlcenter.internal.topics.replication" :> <<"2">>
      @@ "confluent.controlcenter.rest.ssl.keystore.location" :> <<"/", "k">>
      @@ "confluent.controlcenter.id" :> <<"1">>
      : l \in ListenerOpts, r \in ReplicationOpts, a \in AuthenticationOpts, u \in LdapOpts }

ZookeeperMaps ==
    { Opt("clientPort", c) @@ Opt("secureClientPort", p) @@ Opt("ssl.clientAuth", m)
      @@ "ssl.keyStore.location" :> <<"/", "k">>
      @@ "dataDir" :> <<"/", "d">>
      : c \in ClientPortOpts, p \in SecurePortOpts, m \in ClientAuthOpts }

ServiceMaps(svc) == IF svc = CONTROL_CENTER THEN ControlCenterMaps ELSE ZookeeperMaps

\* whether the service's TLS rule consults the alias resolver for this map
UsesAliases(svc, m) ==
    IF svc = CONTROL_CENTER
    THEN /\ "confluent.controlcenter.rest.listeners" \in DOMAIN m
         /\ Find(m["confluent.controlcenter.rest.listeners"], Chars_https) >= 0
    ELSE "secureClientPort" \in DOMAIN m

\* the hosts of the service's group and the ones that answer the collector
HostLayouts ==
    { [members |-> <<>>, up |-> {}],
      [members |-> <<"h1">>, up |-> {"h1"}],
      [members |-> <<"h1", "h2">>, up |-> {"h1", "h2"}],
      [members |-> <<"h1", "h2">>, up |-> {"h2"}],
      [members |-> <<"h1", "h2">>, up |-> {"h1"}] }

\* service/config/<service>.yml: absent, without a skip_properties entry,
\* or listing the keys to skip
ConfigFiles ==
    { [kind |-> "missing", content |-> EmptyDict],
      [kind |-> "yaml", content |-> EmptyDict],
      [kind |-> "yaml", content |-> "skip_properties" :> {"confluent.controlcenter.id", "dataDir"}] }

\* the broker group before the run: absent, without or with the variable
BrokerGroups ==
    { EmptyDict,
      KAFKA_BROKER :> EmptyDict,
      KAFKA_BROKER :> ("ssl_mutual_auth_enabled" :> BoolV(FALSE)) }

\* zookeeper.py holds an unresolved conflict block in __build_custom_properties
\* (lines 75-91). As it stands the module does not compile; resolved to the
\* HEAD side the call names the undefined group and service_properties;
\* resolved to the incoming side it is the code of control_center.py.
ConflictSides == {"unresolved", "HEAD", "incoming"}

NoCli == [pc |-> "off"]

\* no write of the broker builder yet; a write records the run, the number of
\* steps of that run that were over when it happened, and their names
NoWrite == [done |-> FALSE, run |-> 0, at |-> 0, seen |-> {}]

Init ==
    /\ service \in Services
    /\ \E lay \in HostLayouts, m \in ServiceMaps(service), e1 \in ExtraOpts \ {<<<<"v", "2">>>>},
          e2 \in ExtraOpts \ {<<<<"v", "1">>>>}, b \in BrokerGroups :
         /\ (lay.members = <<>> \/ lay.members[1] \notin lay.up)
               => m = CHOOSE x \in ServiceMaps(service) : TRUE
         /\ "h1" \notin lay.up => e1 = <<>>
         /\ "h2" \notin lay.up => e2 = <<>>
         /\ service = ZOOKEEPER => b = EmptyDict
         /\ reachable = lay.up
         /\ rawProps = [h \in {"h1", "h2"} |->
                          IF h \notin lay.up THEN EmptyDict
                          ELSE m @@ Opt("extra.key", IF h = "h1" THEN e1 ELSE e2)]
         /\ aliasAnswers \in [{"ks", "ts"} -> AliasOpts]
         /\ (lay.up = {} \/ ~UsesAliases(service, m)) => aliasAnswers = [x \in {"ks", "ts"} |-> <<>>]
         /\ inventory =
              [groups |-> (IF lay.members = <<>> THEN EmptyDict ELSE service :> EmptyDict) @@ b,
               members |-> IF lay.members = <<>> THEN EmptyDict ELSE service :> lay.members,
               hostvars |-> EmptyDict]
    /\ configFile \in ConfigFiles
    /\ conflictSide \in ConflictSides
    /\ service = CONTROL_CENTER => conflictSide = "incoming"
    /\ pc = "idle"
    /\ ruleIdx = 0
    /\ hosts = <<>>
    /\ host_service_properties = EmptyDict
    /\ service_properties = EmptyDict
    /\ mapped_service_properties = {}
    /\ raised = "none"
    /\ log = {}
    /\ readKeys = {}
    /\ calls = <<>>
    /\ run = 0
    /\ invAtStart = inventory
    /\ invAfterFirst = inventory
    /\ cli = NoCli
    /\ brokerWrite = NoWrite

-----------------------------------------------------------------------------
(* build_properties, step by step *)

Call(step, res) ==
    [step |-> step, exc |-> res.exc, scope |-> res.scope, props |-> res.props,
     adds |-> res.adds, reads |-> res.reads]
Plain(exc) == Raise(exc, {}, {})

\* an exception leaves build_properties: nothing after the raising step runs
Abort(step, exc) ==
    /\ pc' = "done"
    /\ raised' = exc
    /\ calls' = Append(calls, Call(step, Plain(exc)))

\* <Service>ServicePropertyBuilder.build_properties: a new builder object
\* (__init__) whose build_properties is then called on the shared inventory
ServicePropertyBuilder_build_properties ==
    /\ pc \in {"idle", "done"}
    /\ run < MaxRuns
    /\ run' = run + 1
    /\ invAtStart' = inventory
    /\ invAfterFirst' = IF run = 1 THEN inventory ELSE invAfterFirst
    /\ mapped_service_properties' = {}
    /\ hosts' = <<>>
    /\ host_service_properties' = EmptyDict
    /\ service_properties' = EmptyDict
    /\ ruleIdx' = 0
    /\ log' = {}
    /\ readKeys' = {}
    /\ IF service = ZOOKEEPER /\ conflictSide = "unresolved"
       THEN \* zookeeper.py with the conflict markers left in does not compile
            /\ pc' = "done"
            /\ raised' = "SyntaxError"
            /\ calls' = <<>>
       ELSE /\ pc' = "start"
            /\ raised' = "none"
            /\ calls' = <<>>
    /\ UNCHANGED <<service, inventory, reachable, rawProps, configFile, aliasAnswers,
                   conflictSide, cli, brokerWrite>>

\* whether build_properties returns after logging that no host was found
ReturnsWhenNoHosts(svc) == svc = CONTROL_CENTER

\* build_properties up to the host check
build_properties ==
    /\ pc = "start"
    /\ hosts' = get_service_host(service, inventory)
    /\ log' = IF hosts' = <<>> THEN log \cup {"no_hosts"} ELSE log
    /\ pc' = IF hosts' = <<>> /\ ReturnsWhenNoHosts(service) THEN "done" ELSE "mappings"
    /\ calls' = Append(calls, Call("build_properties", Plain("none")))
    /\ UNCHANGED <<service, inventory, reachable, rawProps, configFile, aliasAnswers,
                   conflictSide, ruleIdx, host_service_properties, service_properties,
                   mapped_service_properties, raised, readKeys, run, invAtStart,
                   invAfterFirst, cli, brokerWrite>>

\* the host whose default variant drives the rules: hosts[0], or "" when
\* the lookup fails
CanonicalHost(hs, table) ==
    IF hs # <<>> /\ hs[1] \in DOMAIN table THEN hs[1] ELSE ""

\* host_service_properties = get_property_mappings(...);
\* service_properties = host_service_properties.get(hosts[0]).get(DEFAULT_KEY)
GetPropertyMappings ==
    /\ pc = "mappings"
    /\ LET table == get_property_mappings(service, hosts)
           asked == {hosts[i] : i \in 1..Len(hosts)}
           canonical == CanonicalHost(hosts, table)
       IN  /\ host_service_properties' = table
           /\ log' = IF parse_ansible_api_response(asked).logged # {}
                     THEN log \cup {"host_failed"} ELSE log
           /\ IF hosts = <<>>
              THEN Abort("get_property_mappings", "IndexError") /\ UNCHANGED service_properties
              ELSE IF canonical = ""
              THEN Abort("get_property_mappings", "AttributeError") /\ UNCHANGED service_properties
              ELSE /\ service_properties' = table[canonical][DEFAULT_KEY]
                   /\ pc' = "daemon"
                   /\ calls' = Append(calls, Call("get_property_mappings", Plain("none")))
                   /\ UNCHANGED raised
    /\ UNCHANGED <<service, inventory, reachable, rawProps, configFile, aliasAnswers,
                   conflictSide, ruleIdx, hosts, mapped_service_properties, readKeys, run,
                   invAtStart, invAfterFirst, cli, brokerWrite>>

__build_daemon_properties ==
    /\ pc = "daemon"
    /\ LET response == get_service_user_group(service)
       IN  /\ inventory' = update_inventory(inventory, response)
           /\ calls' = Append(calls, Call("__build_daemon_properties", response))
    /\ pc' = "rules"
    /\ ruleIdx' = 1
    /\ UNCHANGED <<service, reachable, rawProps, configFile, aliasAnswers, conflictSide,
                   hosts, host_service_properties, service_properties,
                   mapped_service_properties, raised, log, readKeys, run, invAtStart,
                   invAfterFirst, cli, brokerWrite>>

\* one turn of the loop of __build_service_properties:
\* result = func(self, service_properties); self.update_inventory(self.inventory, result)
__build_service_properties(name, result) ==
    /\ pc = "rules"
    /\ Rules(service)[ruleIdx] = name
    /\ mapped_service_properties' = mapped_service_properties \cup result.adds
    /\ readKeys' = readKeys \cup result.reads
    /\ calls' = Append(calls, Call(name, result))
    /\ IF result.exc # "none"
       THEN /\ pc' = "done"
            /\ raised' = result.exc
            /\ UNCHANGED <<inventory, ruleIdx>>
       ELSE /\ inventory' = update_inventory(inventory, result)
            /\ ruleIdx' = ruleIdx + 1
            /\ pc' = IF ruleIdx = Len(Rules(service)) THEN "custom" ELSE "rules"
            /\ UNCHANGED raised
    /\ UNCHANGED <<service, reachable, rawProps, configFile, aliasAnswers, conflictSide,
                   hosts, host_service_properties, service_properties, log, run,
                   invAtStart, invAfterFirst, cli, brokerWrite>>

Rule_service_protocol_port ==
    __build_service_properties("_build_service_protocol_port",
                               _build_service_protocol_port(service_properties))
Rule_internal_replication ==
    __build_service_properties("_build_control_center_internal_replication_property",
                               _build_control_center_internal_replication_property(service_properties))
Rule_tls ==
    __build_service_properties("_build_tls_properties", _build_tls_properties(service_properties))
Rule_authentication ==
    __build_service_properties("_build_authentication_property",
                               _build_authentication_property(service_properties))
Rule_mtls ==
    __build_service_properties("_build_mtls_property", _build_mtls_property(service_properties))
Rule_rbac ==
    __build_service_properties("_build_rbac_properties", _build_rbac_properties(service_properties))
Rule_ldap ==
    __build_service_properties("_build_ldap_properties", _build_ldap_properties(service_properties))
Rule_zk_service_port ==
    __build_service_properties("_build_service_port_properties",
                               _build_service_port_properties(service_properties))
Rule_zk_ssl ==
    __build_service_properties("_build_ssl_properties", _build_ssl_properties(service_properties))
Rule_zk_mtls ==
    __build_service_properties("_build_mtls_properties", _build_mtls_properties(service_properties))

CustomGroup(svc) ==
    IF svc = CONTROL_CENTER THEN "control_center_custom_properties"
    ELSE "zookeeper_custom_properties"

\* the exception the statements of __build_custom_properties raise before
\* build_custom_properties is reached, "none" when they raise none
CustomPropertiesExc(svc, file, side) ==
    LET cfg == get_configs(file, "skip_properties")
    IN  IF cfg.exc # "none" THEN cfg.exc
        ELSE IF PySet(cfg.v).exc # "none" THEN PySet(cfg.v).exc
        ELSE IF svc = ZOOKEEPER /\ side = "HEAD" THEN "NameError"
        ELSE "none"

__build_custom_properties ==
    /\ pc = "custom"
    /\ LET exc == CustomPropertiesExc(service, configFile, conflictSide)
           skip_properties == PySet(get_configs(configFile, "skip_properties").v).v
           props_by_host == [h \in DOMAIN host_service_properties |->
                                host_service_properties[h][DEFAULT_KEY]]
       IN  IF exc # "none"
           THEN Abort("__build_custom_properties", exc) /\ UNCHANGED inventory
           ELSE /\ inventory' = build_custom_properties(inventory, CustomGroup(service),
                                    props_by_host, skip_properties, mapped_service_properties)
                /\ pc' = "runtime"
                /\ calls' = Append(calls, Call("__build_custom_properties", Plain("none")))
                /\ UNCHANGED raised
    /\ UNCHANGED <<service, reachable, rawProps, configFile, aliasAnswers, conflictSide,
                   ruleIdx, hosts, host_service_properties, service_properties,
                   mapped_service_properties, log, readKeys, run, invAtStart,
                   invAfterFirst, cli, brokerWrite>>

__build_runtime_properties ==
    /\ pc = "runtime"
    /\ LET data == Ret("all",
                       (IF service = CONTROL_CENTER THEN "control_center_custom_java_args"
                        ELSE "zookeeper_custom_java_args") :> get_jvm_arguments(service),
                       {}, {})
       IN  /\ inventory' = update_inventory(inventory, data)
           /\ calls' = Append(calls, Call("__build_runtime_properties", data))
    /\ pc' = "done"
    /\ UNCHANGED <<service, reachable, rawProps, configFile, aliasAnswers, conflictSide,
                   ruleIdx, hosts, host_service_properties, service_properties,
                   mapped_service_properties, raised, log, readKeys, run, invAtStart,
                   invAfterFirst, cli, brokerWrite>>

Next ==
    \/ ServicePropertyBuilder_build_properties
    \/ build_properties
    \/ GetPropertyMappings
    \/ __build_daemon_properties
    \/ Rule_service_protocol_port
    \/ Rule_internal_replication
    \/ Rule_tls
    \/ Rule_authentication
    \/ Rule_mtls
    \/ Rule_rbac
    \/ Rule_ldap
    \/ Rule_zk_service_port
    \/ Rule_zk_ssl
    \/ Rule_zk_mtls
    \/ __build_custom_properties
    \/ __build_runtime_properties

Spec == Init /\ [][Next]_vars

-----------------------------------------------------------------------------
(* Properties of a builder run *)

Steps == {calls[i].step : i \in 1..Len(calls)}
RuleNames(svc) == {Rules(svc)[i] : i \in 1..Len(Rules(svc))}
CallsOf(step) == {i \in 1..Len(calls) : calls[i].step = step}

\* the configured skip set: empty without a file or without an entry
SkipSet(file) ==
    IF "skip_properties" \in DOMAIN file.content THEN file.content["skip_properties"] ELSE {}

\* the custom-property overrides of a host, empty when it has none
CustomOverrides(h) ==
    IF h \in DOMAIN inventory.hostvars /\ CustomGroup(service) \in DOMAIN inventory.hostvars[h]
    THEN inventory.hostvars[h][CustomGroup(service)]
    ELSE EmptyDict

\* C1: a builder whose host lookup returns no host logs the error and
\* returns: it does not go on to hosts[0], raises nothing and leaves the
\* inventory as it found it.
C1_NoHostsAbortsCleanly ==
    (pc = "done" /\ "build_properties" \in Steps /\ hosts = <<>>) =>
        /\ "no_hosts" \in log
        /\ "get_property_mappings" \notin Steps
        /\ raised = "none"
        /\ inventory = invAtStart

\* C2: when the custom-property step runs, every raw key of the canonical
\* map that a rule looked up is in mapped_service_properties, and no such key
\* is in a host's custom-property overrides.
C2_MappedSetExclusivity ==
    /\ pc = "custom" =>
         (readKeys \cap DOMAIN service_properties) \subseteq mapped_service_properties
    /\ \A h \in DOMAIN host_service_properties :
         DOMAIN CustomOverrides(h) \cap readKeys = {}

\* C3: once the custom-property step has been entered and the run is over,
\* every host of the table has each of its raw keys that is neither mapped
\* nor skipped among its custom-property overrides, with the same value, and
\* a host has no override for a key its own map lacks.
C3_UnmappedKeysPassThrough ==
    (pc = "done" /\ "__build_custom_properties" \in Steps) =>
        \A h \in DOMAIN host_service_properties :
            LET own == host_service_properties[h][DEFAULT_KEY]
                want == DOMAIN own \ (mapped_service_properties \cup SkipSet(configFile))
            IN  /\ DOMAIN CustomOverrides(h) = want
                /\ \A k \in want : CustomOverrides(h)[k] = own[k]

\* C4: a second run of the same builder, with the same collector and alias
\* answers, ends with the inventory the first run ended with.
C4_SecondRunChangesNothing ==
    (run >= 2 /\ pc = "done") => inventory = invAfterFirst

\* a second Control Center run that completed and whose cross-service rule
\* emitted the mutual-TLS property
C4_Witness ==
    /\ run = 2 /\ pc = "done" /\ raised = "none"
    /\ service = CONTROL_CENTER
    /\ "__build_runtime_properties" \in Steps
    /\ "ssl_mutual_auth_enabled" \in DOMAIN inventory.groups[CONTROL_CENTER]

\* C5: for a listener whose parsed scheme is http the TLS rule of Control
\* Center emits no property.
C5_TlsOnlyForHttpsScheme ==
    \A i \in CallsOf("_build_tls_properties") :
        (/\ calls[i].exc = "none"
         /\ urlparse(Get(service_properties, "confluent.controlcenter.rest.listeners")).scheme
              = StrV(Chars_http))
        => DOMAIN calls[i].props = {}

\* C6: a rule that looks up a key the canonical map lacks raises nothing: it
\* returns its (scope, properties) pair and the run goes on.
C6_AbsentKeyNeverRaises ==
    \A i \in 1..Len(calls) :
        (calls[i].step \in RuleNames(service) /\ calls[i].reads \ DOMAIN service_properties # {})
        => calls[i].exc = "none"

\* C7: when a rule fails on a property that is present but malformed, the
\* other rules still run and so do the custom-property and runtime steps.
C7_RuleFailureIsolated ==
    (/\ pc = "done"
     /\ \E i \in 1..Len(calls) :
          /\ calls[i].step \in RuleNames(service)
          /\ calls[i].exc # "none"
          /\ calls[i].reads \subseteq DOMAIN service_properties)
    => /\ RuleNames(service) \subseteq Steps
       /\ "__build_custom_properties" \in Steps
       /\ "__build_runtime_properties" \in Steps

\* the first host of the list that answered the collector
FirstReachable(hs) ==
    hs[CHOOSE i \in 1..Len(hs) : hs[i] \in reachable /\ \A j \in 1..(i - 1) : hs[j] \notin reachable]

\* C8: when hosts[0] did not answer the collector and another host did, the
\* rules are driven by the next reachable host's map and the run does not
\* fail on the lookup.
C8_CanonicalHostFallback ==
    (/\ "get_property_mappings" \in Steps
     /\ hosts # <<>> /\ hosts[1] \notin reachable
     /\ \E i \in 1..Len(hosts) : hosts[i] \in reachable)
    => /\ \A i \in CallsOf("get_property_mappings") : calls[i].exc = "none"
       /\ service_properties = rawProps[FirstReachable(hosts)]

\* C9: without service/config/<service>.yml the skip set is empty and the
\* custom-property step completes: every unmapped key of every host of the
\* table is among the host's overrides.
C9_MissingConfigIsEmpty ==
    (configFile.kind = "missing" /\ "__build_custom_properties" \in Steps) =>
        /\ \A i \in CallsOf("__build_custom_properties") : calls[i].exc = "none"
        /\ \A h \in DOMAIN host_service_properties :
             DOMAIN CustomOverrides(h) =
                DOMAIN host_service_properties[h][DEFAULT_KEY] \ mapped_service_properties

-----------------------------------------------------------------------------
(* Command line: Arguments and InputContext *)

\* the inventory file's from_version: absent, strings, and the float that
\* YAML makes of an unquoted 7.1
FromVersions ==
    { NoneV,
      StrV(<<"7", ".", "1">>),
      StrV(<<"7", ".", "1", ".", "0">>),
      StrV(<<"7">>),
      StrV(<<"7", ".", "1", ".", "0", ".", "1">>),
      StrV(<<"7", ".", "x">>),
      FloatV(<<"7", ".", "1">>) }

Connections == { NoneV, StrV(<<"s", "s", "h">>), StrV(<<"d", "o", "c", "k", "e", "r">>),
                 StrV(<<"l", "o", "c", "a", "l">>) }

HostLists == { <<>>, <<"h1">>, <<"h1", "h2">> }

Verbosities == {0, 4, 7}

\* isinstance(x, int)
IsInstanceInt(x) == x.t = "int"

\* truth value of a Python value
Truthy(x) ==
    CASE x.t = "none" -> FALSE
      [] x.t = "str" -> x.v # <<>>
      [] OTHER -> TRUE

\* the from_version part of Arguments.__validate_variables: the exception it
\* raises, the value vars["from_version"] holds afterwards and whether an
\* error was logged
ValidateFromVersion(from_version) ==
    IF ~Truthy(from_version)
    THEN [exc |-> "none", value |-> from_version, logged |-> FALSE]
    ELSE IF from_version.t # "str"
    THEN [exc |-> "AttributeError", value |-> from_version, logged |-> FALSE]
    ELSE LET versions == Split(from_version.v, ".")
         IN  IF Len(versions) > 3 \/ Len(versions) < 2
             THEN [exc |-> "none", value |-> NoneV, logged |-> TRUE]
             ELSE IF \E i \in 1..Len(versions) : ~IsInstanceInt(StrV(versions[i]))
             THEN [exc |-> "none", value |-> NoneV, logged |-> TRUE]
             ELSE [exc |-> "none", value |-> from_version, logged |-> FALSE]

\* the connection part of Arguments.__validate_variables: whether it exits
ConnectionExits(connection) ==
    connection \notin {StrV(<<"s", "s", "h">>), StrV(<<"d", "o", "c", "k", "e", "r">>)}

\* a decorator that constructs an instance at every call
singleton_get_instance_always_new(instances, made) ==
    "InputContext" :> made

\* the singleton decorator: the first call constructs the instance, every
\* call returns the instance held
singleton_get_instance(instances, made) ==
    IF "InputContext" \in DOMAIN instances THEN instances
    ELSE "InputContext" :> made

\* InputContext.__init__
InputContext(ansible_hosts, ansible_connection, ansible_become, ansible_user, verbosity, from_version, output_file) ==
    [ansible_hosts |-> ansible_hosts, ansible_connection |-> ansible_connection,
     ansible_become |-> ansible_become, ansible_user |-> ansible_user,
     verbosity |-> verbosity, from_version |-> from_version, output_file |-> output_file]

InitCli ==
    /\ service = CONTROL_CENTER
    /\ inventory = [groups |-> EmptyDict, members |-> EmptyDict, hostvars |-> EmptyDict]
    /\ reachable = {}
    /\ rawProps = [h \in {"h1", "h2"} |-> EmptyDict]
    /\ configFile = [kind |-> "missing", content |-> EmptyDict]
    /\ aliasAnswers = [x \in {"ks", "ts"} |-> <<>>]
    /\ conflictSide = "incoming"
    /\ pc = "idle"
    /\ ruleIdx = 0
    /\ hosts = <<>>
    /\ host_service_properties = EmptyDict
    /\ service_properties = EmptyDict
    /\ mapped_service_properties = {}
    /\ raised = "none"
    /\ log = {}
    /\ readKeys = {}
    /\ calls = <<>>
    /\ run = 0
    /\ invAtStart = inventory
    /\ invAfterFirst = inventory
    /\ brokerWrite = NoWrite
    /\ \E fv \in FromVersions, c \in Connections, hs \in HostLists, v \in Verbosities :
         cli = [pc |-> "validate_hosts",
                file |-> [from_version |-> fv, ansible_connection |-> c, hosts |-> hs],
                verbosity |-> v,
                validated |-> NoneV,
                logged |-> {},
                ended |-> "none",
                instances |-> EmptyDict,
                resolved |-> NoneV]

\* validate_args up to __validate_hosts(get_hosts(args))
validate_hosts ==
    /\ cli.pc = "validate_hosts"
    /\ cli' = IF Len(cli.file.hosts) < 1
              THEN [cli EXCEPT !.pc = "ended", !.ended = "sys.exit",
                               !.logged = @ \cup {"no_hosts"}]
              ELSE [cli EXCEPT !.pc = "validate_variables"]
    /\ UNCHANGED builderVars

\* __validate_variables(get_vars(args)): the dict it checks and changes is
\* the one this call of get_vars built
validate_variables ==
    /\ cli.pc = "validate_variables"
    /\ LET r == ValidateFromVersion(cli.file.from_version)
       IN  cli' = IF ConnectionExits(cli.file.ansible_connection)
                  THEN [cli EXCEPT !.pc = "ended", !.ended = "sys.exit",
                                   !.logged = @ \cup {"connection"}]
                  ELSE IF r.exc # "none"
                  THEN [cli EXCEPT !.pc = "ended", !.ended = r.exc]
                  ELSE [cli EXCEPT !.pc = "get_input_context", !.validated = r.value,
                                   !.logged = IF r.logged THEN @ \cup {"from_version"} ELSE @]
    /\ UNCHANGED builderVars

\* get_input_context: hosts and vars are read again and InputContext is
\* called without from_version and output_file, which default to None
get_input_context ==
    /\ cli.pc = "get_input_context"
    /\ cli' = [cli EXCEPT
                 !.pc = "resolve",
                 !.instances = singleton_get_instance(@,
                     InputContext(cli.file.hosts, cli.file.ansible_connection,
                                  NoneV, NoneV, cli.verbosity, NoneV, NoneV))]
    /\ UNCHANGED builderVars

\* <Service>ServicePropertyBuilder.build_properties: the builder class is
\* resolved with version=input_context.from_version
get_service_builder_class ==
    /\ cli.pc = "resolve"
    /\ cli' = [cli EXCEPT !.pc = "resolved",
                          !.resolved = cli.instances["InputContext"].from_version]
    /\ UNCHANGED builderVars

NextCli ==
    \/ validate_hosts
    \/ validate_variables
    \/ get_input_context
    \/ get_service_builder_class

SpecCli == InitCli /\ [][NextCli]_vars

\* a source version of the form major.minor[.patch] with numeric components
WellFormedVersion(x) ==
    /\ x.t = "str"
    /\ Len(Split(x.v, ".")) \in {2, 3}
    /\ \A i \in 1..Len(Split(x.v, ".")) : IsDigits(Split(x.v, ".")[i])

\* C10: from_version never ends the process; a value that is not
\* major.minor[.patch] is replaced by None with an error logged, a well-formed
\* one is kept and is the from_version of the InputContext the builder class
\* is resolved with.
C10_FromVersionHandling ==
    /\ cli.pc = "ended" => cli.ended = "sys.exit" /\ cli.logged \cap {"no_hosts", "connection"} # {}
    /\ cli.pc \in {"get_input_context", "resolve", "resolved"} =>
         IF WellFormedVersion(cli.file.from_version)
         THEN cli.validated = cli.file.from_version /\ "from_version" \notin cli.logged
         ELSE cli.validated = NoneV
    /\ cli.pc = "resolved" =>
         cli.resolved = IF WellFormedVersion(cli.file.from_version)
                        THEN cli.file.from_version ELSE NoneV

-----------------------------------------------------------------------------
(* Properties of the rules *)

ReplicationRule == "_build_control_center_internal_replication_property"
ReplicationKey1 == "confluent.controlcenter.command.topic.replication"
ReplicationKey2 == "confluent.controlcenter.internal.topics.replication"

\* C11: with the first replication key present and numeric, the rule emits
\* control_center_default_internal_replication_factor as the integer of the
\* first key and nothing else, whatever the other keys hold, and all four
\* replication keys are in the mapped set once it has run.
C11_ReplicationFromFirstKey ==
    \A i \in CallsOf(ReplicationRule) :
        (ReplicationKey1 \in DOMAIN service_properties
         /\ IsDigits(service_properties[ReplicationKey1]))
        => /\ calls[i].exc = "none"
           /\ calls[i].scope = "all"
           /\ calls[i].props =
                ("control_center_default_internal_replication_factor"
                    :> IntV(DigitsVal(service_properties[ReplicationKey1])))
           /\ calls[i].adds = ReplicationKeys
           /\ ReplicationKeys \subseteq mapped_service_properties

\* the rule has run on a map whose first two replication keys differ
C11_Witness ==
    \E i \in CallsOf(ReplicationRule) :
        /\ calls[i].exc = "none"
        /\ service_properties[ReplicationKey1] = <<"3">>
        /\ service_properties[ReplicationKey2] = <<"2">>
        /\ inventory.groups[CONTROL_CENTER]["control_center_default_internal_replication_factor"]
             = IntV(3)

\* the calls of the TLS rule of the running builder in which it was triggered
TriggeredTlsCalls ==
    {i \in CallsOf("_build_tls_properties") \cup CallsOf("_build_ssl_properties") :
        calls[i].exc = "none" /\ calls[i].scope # "all"}

\* the alias property of a store in what a call emitted, as the claim has it:
\* the first alias of a non-empty answer, no property for an empty one
AliasAsFirstOrAbsent(i, store, property) ==
    IF aliasAnswers[store] # <<>>
    THEN /\ property \in DOMAIN calls[i].props
         /\ calls[i].props[property] = StrV(aliasAnswers[store][1])
    ELSE property \notin DOMAIN calls[i].props

\* C12 as stated: for the keystore and for the truststore, a non-empty answer
\* of the resolver gives the alias property the answer's first element and an
\* empty answer leaves the property out.
C12_AliasFirstOrAbsent ==
    \A i \in TriggeredTlsCalls :
        /\ AliasAsFirstOrAbsent(i, "ks", "ssl_keystore_alias")
        /\ AliasAsFirstOrAbsent(i, "ts", "ssl_truststore_ca_cert_alias")

\* C12 amended: as stated for non-empty answers and for the keystore; for an
\* empty truststore answer ssl_truststore_ca_cert_alias is emitted as the
\* empty string.
C12_AliasFirstOrSentinel ==
    \A i \in TriggeredTlsCalls :
        /\ AliasAsFirstOrAbsent(i, "ks", "ssl_keystore_alias")
        /\ "ssl_truststore_ca_cert_alias" \in DOMAIN calls[i].props
        /\ calls[i].props["ssl_truststore_ca_cert_alias"] =
             IF aliasAnswers["ts"] # <<>> THEN StrV(aliasAnswers["ts"][1]) ELSE StrV(<<>>)

\* a triggered TLS rule whose keystore answer has two aliases and whose
\* truststore answer has none
C12_Witness ==
    \E i \in TriggeredTlsCalls :
        /\ Len(aliasAnswers["ks"]) = 2
        /\ aliasAnswers["ts"] = <<>>
        /\ calls[i].props["ssl_keystore_alias"] = StrV(<<"a", "1">>)

ListenerKey == "confluent.controlcenter.rest.listeners"

\* the calls of the Control Center TLS rule in which it was not triggered
UntriggeredTlsCalls ==
    {i \in CallsOf("_build_tls_properties") : calls[i].exc = "none" /\ calls[i].scope = "all"}

\* C13: when the Control Center TLS rule is not triggered, the rule itself
\* adds the listener key, and none of the five SSL keys, to the mapped set
\* and returns the broadcast scope with no property.
C13_UntriggeredTlsMarksListener ==
    \A i \in UntriggeredTlsCalls :
        /\ DOMAIN calls[i].props = {}
        /\ calls[i].adds = {ListenerKey}

AuthenticationMethodKey == "confluent.controlcenter.rest.authentication.method"

\* C14: on a map without confluent.controlcenter.rest.authentication.method
\* the RBAC rule returns rbac_enabled with the value False, which the merge
\* puts into the control_center group.
C14_RbacNegativeDefault ==
    \A i \in CallsOf("_build_rbac_properties") :
        AuthenticationMethodKey \notin DOMAIN service_properties
        => /\ calls[i].exc = "none"
           /\ "rbac_enabled" \in DOMAIN calls[i].props
           /\ calls[i].props["rbac_enabled"] = BoolV(FALSE)
           /\ "rbac_enabled" \in DOMAIN inventory.groups[CONTROL_CENTER]

\* the RBAC rule has run on a map without the governing key
C14_Witness ==
    /\ CallsOf("_build_rbac_properties") # {}
    /\ AuthenticationMethodKey \notin DOMAIN service_properties
    /\ inventory.groups[CONTROL_CENTER]["rbac_enabled"] = BoolV(FALSE)

-----------------------------------------------------------------------------
(* Order of the steps of a run *)

StepSequence == [i \in 1..Len(calls) |-> calls[i].step]

\* build_properties of control_center.py, its rules as the class lists them
ControlCenterRunOrder ==
    <<"build_properties",
      "get_property_mappings",
      "__build_daemon_properties",
      "_build_service_protocol_port",
      "_build_control_center_internal_replication_property",
      "_build_tls_properties",
      "_build_authentication_property",
      "_build_mtls_property",
      "_build_rbac_properties",
      "_build_ldap_properties",
      "__build_custom_properties",
      "__build_runtime_properties">>

ZookeeperRunOrder ==
    <<"build_properties",
      "get_property_mappings",
      "__build_daemon_properties",
      "_build_service_port_properties",
      "_build_ssl_properties",
      "_build_mtls_properties",
      "__build_custom_properties",
      "__build_runtime_properties">>

RunOrder(svc) == IF svc = CONTROL_CENTER THEN ControlCenterRunOrder ELSE ZookeeperRunOrder

\* C15: a run that found at least one host is, when it is over, the daemon
\* step, then every rule once in declaration order, then the custom-property
\* step, then the runtime step, and nothing else after it.
C15_StepOrder ==
    (pc = "done" /\ hosts # <<>>) => StepSequence = RunOrder(service)

\* the steps of a run are at every moment the first steps of that order, and
\* all of it once a run that raised nothing is over
StepOrderOfRunsThatRaiseNothing ==
    /\ Len(calls) <= Len(RunOrder(service))
    /\ StepSequence = SubSeq(RunOrder(service), 1, Len(calls))
    /\ (pc = "done" /\ hosts # <<>> /\ raised = "none") => StepSequence = RunOrder(service)

-----------------------------------------------------------------------------
(* The broker builder's write and the Control Center run *)

\* the broker builder merges ssl_mutual_auth_enabled into its own group, at
\* any moment before, during or after the Control Center run
KafkaBrokerWrite ==
    /\ ~brokerWrite.done
    /\ \E b \in BOOLEAN :
         inventory' = update_inventory(inventory,
                         Ret(KAFKA_BROKER, "ssl_mutual_auth_enabled" :> BoolV(b), {}, {}))
    /\ brokerWrite' = [done |-> TRUE, run |-> run, at |-> Len(calls), seen |-> Steps]
    /\ UNCHANGED <<service, reachable, rawProps, configFile, aliasAnswers, conflictSide, pc,
                   ruleIdx, hosts, host_service_properties, service_properties,
                   mapped_service_properties, raised, log, readKeys, calls, run, invAtStart,
                   invAfterFirst, cli>>

\* one Control Center host that answers, a listener with or without TLS, the
\* broker group absent, without or with the variable
InitOrder ==
    /\ service = CONTROL_CENTER
    /\ reachable = {"h1"}
    /\ \E l \in {<<Chars_https \o Chars_b1_9021>>, <<Chars_http \o Chars_b1_9021>>},
          a \in AuthenticationOpts, b \in BrokerGroups :
         /\ rawProps = [h \in {"h1", "h2"} |->
                          IF h = "h2" THEN EmptyDict
                          ELSE Opt("confluent.controlcenter.rest.listeners", l)
                               @@ Opt("confluent.controlcenter.rest.authentication.method", a)
                               @@ "confluent.controlcenter.command.topic.replication" :> <<"3">>
                               @@ "confluent.controlcenter.id" :> <<"1">>]
         /\ inventory = [groups |-> (CONTROL_CENTER :> EmptyDict) @@ b,
                         members |-> CONTROL_CENTER :> <<"h1">>,
                         hostvars |-> EmptyDict]
    /\ aliasAnswers = [x \in {"ks", "ts"} |-> <<>>]
    /\ configFile = [kind |-> "yaml",
                     content |-> "skip_properties" :> {"confluent.controlcenter.id", "dataDir"}]
    /\ conflictSide = "incoming"
    /\ pc = "idle"
    /\ ruleIdx = 0
    /\ hosts = <<>>
    /\ host_service_properties = EmptyDict
    /\ service_properties = EmptyDict
    /\ mapped_service_properties = {}
    /\ raised = "none"
    /\ log = {}
    /\ readKeys = {}
    /\ calls = <<>>
    /\ run = 0
    /\ invAtStart = inventory
    /\ invAfterFirst = inventory
    /\ cli = NoCli
    /\ brokerWrite = NoWrite

NextOrder ==
    \/ ServicePropertyBuilder_build_properties
    \/ build_properties
    \/ GetPropertyMappings
    \/ __build_daemon_properties
    \/ Rule_service_protocol_port
    \/ Rule_internal_replication
    \/ Rule_tls
    \/ Rule_authentication
    \/ Rule_mtls
    \/ Rule_rbac
    \/ Rule_ldap
    \/ __build_custom_properties
    \/ __build_runtime_properties
    \/ KafkaBrokerWrite

SpecOrder == InitOrder /\ [][NextOrder]_vars

HasBrokerVariable(inv) ==
    /\ KAFKA_BROKER \in DOMAIN inv.groups
    /\ "ssl_mutual_auth_enabled" \in DOMAIN inv.groups[KAFKA_BROKER]

\* whether the broker's variable was in the inventory when step i of the
\* current run began: it was there when the run started, or the write
\* happened during this run with fewer than i steps over
PresentAt(i) ==
    \/ HasBrokerVariable(invAtStart)
    \/ brokerWrite.done /\ brokerWrite.run = run /\ brokerWrite.at < i

\* C16: the mutual-TLS rule of Control Center emits ssl_mutual_auth_enabled =
\* True for the control_center group exactly when the broker group held a
\* variable of that name, whatever its value, at the moment the rule ran; when
\* it did not, the control_center group never gets the property in that run,
\* also when the broker's write follows.
C16_MtlsFollowsBrokerWrite ==
    \A i \in CallsOf("_build_mtls_property") :
        /\ calls[i].exc = "none"
        /\ PresentAt(i) =>
             /\ calls[i].scope = "control_center"
             /\ calls[i].props = ("ssl_mutual_auth_enabled" :> BoolV(TRUE))
             /\ inventory.groups[CONTROL_CENTER]["ssl_mutual_auth_enabled"] = BoolV(TRUE)
        /\ ~PresentAt(i) =>
             /\ DOMAIN calls[i].props = {}
             /\ "ssl_mutual_auth_enabled" \notin DOMAIN inventory.groups[CONTROL_CENTER]

\* the broker wrote False after the rule of the first run had run, so that run
\* ended without the property, and the rule of the second run emitted it
C16_Witness ==
    /\ run = 2
    /\ brokerWrite.done /\ brokerWrite.run = 1
    /\ "_build_mtls_property" \in brokerWrite.seen
    /\ "ssl_mutual_auth_enabled" \notin DOMAIN invAfterFirst.groups[CONTROL_CENTER]
    /\ invAfterFirst.groups[KAFKA_BROKER]["ssl_mutual_auth_enabled"] = BoolV(FALSE)
    /\ \E i \in CallsOf("_build_mtls_property") :
         calls[i].props = ("ssl_mutual_auth_enabled" :> BoolV(TRUE))

-----------------------------------------------------------------------------
(* InputContext as a singleton *)

MaxConstructions == 3

\* the arguments of a call InputContext(...)
ContextArguments ==
    [ansible_hosts : {<<"h1">>, <<"h1", "h2">>},
     ansible_connection : {StrV(<<"s", "s", "h">>), StrV(<<"d", "o", "c", "k", "e", "r">>)},
     ansible_become : {NoneV, BoolV(TRUE)},
     ansible_user : {NoneV, StrV(<<"u">>)},
     verbosity : {0, 4},
     from_version : {NoneV, StrV(<<"7", ".", "1">>)},
     output_file : {NoneV, StrV(<<"o">>)}]

InitSingleton ==
    /\ service = CONTROL_CENTER
    /\ inventory = [groups |-> EmptyDict, members |-> EmptyDict, hostvars |-> EmptyDict]
    /\ reachable = {}
    /\ rawProps = [h \in {"h1", "h2"} |-> EmptyDict]
    /\ configFile = [kind |-> "missing", content |-> EmptyDict]
    /\ aliasAnswers = [x \in {"ks", "ts"} |-> <<>>]
    /\ conflictSide = "incoming"
    /\ pc = "idle"
    /\ ruleIdx = 0
    /\ hosts = <<>>
    /\ host_service_properties = EmptyDict
    /\ service_properties = EmptyDict
    /\ mapped_service_properties = {}
    /\ raised = "none"
    /\ log = {}
    /\ readKeys = {}
    /\ calls = <<>>
    /\ run = 0
    /\ invAtStart = inventory
    /\ invAfterFirst = inventory
    /\ brokerWrite = NoWrite
    /\ cli = [pc |-> "singleton", n |-> 0, first |-> NoneV, last |-> NoneV,
              instances |-> EmptyDict, returned |-> NoneV]

\* one call InputContext(...), which is get_instance of the decorator: the
\* object the class would construct at this call is identified by the call's
\* number
InputContext_call ==
    /\ cli.pc = "singleton"
    /\ cli.n < MaxConstructions
    /\ \E args \in ContextArguments :
         LET made == [id |-> cli.n + 1,
                      fields |-> InputContext(args.ansible_hosts, args.ansible_connection,
                                              args.ansible_become, args.ansible_user,
                                              args.verbosity, args.from_version,
                                              args.output_file)]
             held == singleton_get_instance(cli.instances, made)
         IN  cli' = [cli EXCEPT !.n = @ + 1,
                                !.first = IF cli.n = 0 THEN args ELSE @,
                                !.last = args,
                                !.instances = held,
                                !.returned = held["InputContext"]]
    /\ UNCHANGED builderVars

NextSingleton ==
    \/ InputContext_call

SpecSingleton == InitSingleton /\ [][NextSingleton]_vars

\* C17: every call of InputContext returns the instance the first call
\* constructed, and its seven fields are the arguments of the first call.
C17_InputContextFixedByFirstCall ==
    cli.n >= 1 =>
        /\ cli.returned = cli.instances["InputContext"]
        /\ cli.returned.id = 1
        /\ cli.returned.fields.ansible_hosts = cli.first.ansible_hosts
        /\ cli.returned.fields.ansible_connection = cli.first.ansible_connection
        /\ cli.returned.fields.ansible_become = cli.first.ansible_become
        /\ cli.returned.fields.ansible_user = cli.first.ansible_user
        /\ cli.returned.fields.verbosity = cli.first.verbosity
        /\ cli.returned.fields.from_version = cli.first.from_version
        /\ cli.returned.fields.output_file = cli.first.output_file

\* a later call whose seven arguments all differ from the first call's
C17_Witness ==
    /\ cli.n >= 2
    /\ cli.returned.id = 1
    /\ cli.last.ansible_hosts # cli.first.ansible_hosts
    /\ cli.last.ansible_connection # cli.first.ansible_connection
    /\ cli.last.ansible_become # cli.first.ansible_become
    /\ cli.last.ansible_user # cli.first.ansible_user
    /\ cli.last.verbosity # cli.first.verbosity
    /\ cli.last.from_version # cli.first.from_version
    /\ cli.last.output_file # cli.first.output_file

=============================================================================
